---- MODULE Spec2Model ----
(***************************************************************************)
(* Model of src/tools/screenshot.ts: the two screenshot tool handlers      *)
(* (handleScreenshotPage, handleScreenshotByUid) and the response builder  *)
(* they share (buildScreenshotResponse).                                   *)
(*                                                                         *)
(* A JavaScript string is a sequence of tokens (a token is one or more     *)
(* characters); a template literal is the concatenation of its parts.      *)
(* A base64 string has one token per character.  A path has one token per  *)
(* separator "/" and one per segment.                                      *)
(* One handler call is modelled from its invocation to its return, one     *)
(* action per stretch of code between two awaits.                          *)
(***************************************************************************)
EXTENDS Integers, Sequences, FiniteSets, TLC

\* ------------------------------------------------------------------ bounds

\* Longest base64 string the capture operation returns in the model.
MaxLen == 7

\* ------------------------------------------------- constants of the program

\* TOKEN_LIMITS.MAX_SCREENSHOT_CHARS and TOKEN_LIMITS.WARNING_THRESHOLD_CHARS
\* (response-helpers): the hard maximum and the lower warning threshold,
\* scaled down to lengths the model enumerates.
MAX_SCREENSHOT_CHARS == 5
WARNING_THRESHOLD_CHARS == 3

\* The divisor of `base64Png.length / 1024`.
KB == 1024

\* ------------------------------------------------------ JavaScript values

\* A value is a record [t, s]: t is the result of typeof (with null told
\* apart from the other objects), s the tokens of a string (<<>> otherwise).
JsUndefined == [t |-> "undefined", s |-> <<>>]
JsNull == [t |-> "null", s |-> <<>>]
JsNumber == [t |-> "number", s |-> <<>>]
JsStr(s) == [t |-> "string", s |-> s]

\* typeof v
TypeOf(v) == IF v.t = "null" THEN "object" ELSE v.t

\* ToBoolean(v), as `!v` and `if (v)` use it.  JsNumber stands for a
\* non-zero number.
Truthy(v) ==
  CASE v.t = "string" -> v.s # <<>>
    [] v.t = "number" -> TRUE
    [] OTHER -> FALSE

\* `${v}` for the values a template literal of the file interpolates.
ToStr(v) ==
  CASE v.t = "string" -> v.s
    [] v.t = "number" -> <<"42">>
    [] OTHER -> <<v.t>>

\* new Error(message)
Error(message) == [message |-> message]

\* The result of running a stretch of code: it returned a value or threw.
Returns(v) == [threw |-> FALSE, value |-> <<v>>, error |-> <<>>]
Throws(e) == [threw |-> TRUE, value |-> <<>>, error |-> <<e>>]

\* ------------------------------------------------------------ environment

Alphabet == {"A", "B"}

\* The base64 strings of length 0..MaxLen.
B64Strings == UNION {[1..n -> Alphabet] : n \in 0..MaxLen}

\* What takeScreenshotPage / takeScreenshotByUid may resolve to.
CaptureValues == {JsStr(s) : s \in B64Strings} \cup {JsUndefined, JsNull, JsNumber}

\* The request's filePath.
FilePathValues ==
  {JsUndefined, JsNumber, JsStr(<<>>), JsStr(<<"out.png">>),
   JsStr(<<"/", "tmp", "/", "out.png">>), JsStr(<<"..", "/", "out.png">>)}

\* The request's uid.
UidValues == {JsUndefined, JsNull, JsNumber, JsStr(<<>>), JsStr(<<"u1">>)}

\* The request: undefined, null, a number, or an object with the two fields.
ArgsValues ==
  {[t |-> k, uid |-> JsUndefined, filePath |-> JsUndefined] :
     k \in {"undefined", "null", "number"}}
  \cup {[t |-> "object", uid |-> u, filePath |-> f] :
          u \in UidValues, f \in FilePathValues}

\* process.cwd(), as path.resolve uses it.
Cwd == <<"srv">>

\* Failures of the collaborators.
LookupFailures == {<<"element not found for UID">>}
ImportErrors == {Error(<<"Cannot find module">>)}
GetFirefoxErrors == {Error(<<"Firefox not connected">>)}
CaptureErrors == {Error(m) : m \in LookupFailures} \cup {Error(<<"connection lost">>)}
WriteErrors == {Error(<<"EACCES">>), Error(<<"ENOENT">>), Error(<<"ENOSPC">>)}

\* ------------------------------------------- collaborators (other modules)

\* successResponse(message), errorResponse(error) of response-helpers: the
\* uniform envelope; the text of an error envelope begins with the error's
\* description.
successResponse(message) == [isError |-> FALSE, text |-> message]
errorResponse(error) == [isError |-> TRUE, text |-> error.message]

\* handleUidError(error, uid) of uid-helpers: a lookup failure becomes an
\* error whose message references the uid; any other error is returned as is.
IsLookupFailure(error) == error.message \in LookupFailures
handleUidError(error, uid) ==
  IF IsLookupFailure(error)
    THEN Error(<<"UID ">> \o uid \o <<" not found">>)
    ELSE error

\* ---------------------------------------------------------- Node library

IsAbsolute(p) == Len(p) > 0 /\ p[1] = "/"
Segments(p) == SelectSeq(p, LAMBDA x : x # "/")

\* Drops "." and resolves ".." against the segment before it.
RECURSIVE Normalize(_, _)
Normalize(done, rest) ==
  IF rest = <<>> THEN done
  ELSE IF Head(rest) = "." THEN Normalize(done, Tail(rest))
  ELSE IF Head(rest) = ".."
    THEN Normalize(IF done = <<>> THEN done ELSE SubSeq(done, 1, Len(done) - 1),
                   Tail(rest))
  ELSE Normalize(Append(done, Head(rest)), Tail(rest))

RECURSIVE JoinSegments(_)
JoinSegments(segs) ==
  IF segs = <<>> THEN <<>> ELSE <<"/", Head(segs)>> \o JoinSegments(Tail(segs))

\* path.resolve(p) for a string p.
resolve(p) ==
  LET segs == Normalize(<<>>, IF IsAbsolute(p) THEN Segments(p) ELSE Cwd \o Segments(p))
  IN IF segs = <<>> THEN <<"/">> ELSE JoinSegments(segs)

\* path.resolve(filePath): a TypeError for an argument that is no string.
ResolveOutcome(filePath) ==
  IF TypeOf(filePath) = "string"
    THEN Returns(resolve(filePath.s))
    ELSE Throws(Error(<<"The \"paths[0]\" argument must be of type string">>))

B64Val(c) == IF c = "A" THEN 0 ELSE 1

\* Buffer.from(s, 'base64'): four characters of six bits make three bytes;
\* a last group of three makes two bytes, of two one byte, of one none.
RECURSIVE Base64Decode(_)
Base64Decode(s) ==
  LET v(i) == B64Val(s[i])
      b1 == v(1) * 4 + (v(2) \div 16)
      b2 == (v(2) % 16) * 16 + (v(3) \div 4)
      b3 == (v(3) % 4) * 64 + v(4)
  IN CASE Len(s) <= 1 -> <<>>
       [] Len(s) = 2 -> <<b1>>
       [] Len(s) = 3 -> <<b1, b2>>
       [] OTHER -> <<b1, b2, b3>> \o Base64Decode(SubSeq(s, 5, Len(s)))

\* ------------------------------------------------ buildScreenshotResponse

\* Math.round(base64Png.length / 1024)
SizeKB(base64Png) == (2 * Len(base64Png) + KB) \div (2 * KB)

\* A variant that tests `filePath !== undefined` instead.
SaveRequestedIfDefined(filePath) == filePath.t # "undefined"

\* `if (filePath)`
SaveRequested(filePath) == Truthy(filePath)

\* The message of the save-to-file branch.
SavedMessage(base64Png, label, absolutePath) ==
  <<"<camera> ">> \o label \o <<" (", ToString(SizeKB(base64Png)), "KB)", " saved to ">>
    \o absolutePath

\* A variant that leaves the underlying cause out of the message.
SaveErrorNoCause(filePath, error) ==
  Error(<<"Failed to save screenshot to ">> \o ToStr(filePath))

\* The error the save-to-file branch throws for whatever its try block threw.
SaveError(filePath, error) ==
  Error(<<"Failed to save screenshot to ">> \o ToStr(filePath) \o <<": ">> \o error.message)

\* base64Png.slice(0, n)
Slice0(s, n) == SubSeq(s, 1, IF n < Len(s) THEN n ELSE Len(s))

\* A variant that truncates from the hard maximum on (>=).
ExceedsMaxInclusive(base64Png) == Len(base64Png) >= MAX_SCREENSHOT_CHARS

\* `base64Png.length > TOKEN_LIMITS.MAX_SCREENSHOT_CHARS`
ExceedsMax(base64Png) == Len(base64Png) > MAX_SCREENSHOT_CHARS

\* A variant that warns from the warning threshold on (>=).
WarnInclusive(base64Png) ==
  IF Len(base64Png) >= WARNING_THRESHOLD_CHARS THEN <<" [large]">> ELSE <<>>

\* A variant that compares with the hard maximum, so it never warns.
WarnAboveMax(base64Png) ==
  IF Len(base64Png) > MAX_SCREENSHOT_CHARS THEN <<" [large]">> ELSE <<>>

\* `base64Png.length > TOKEN_LIMITS.WARNING_THRESHOLD_CHARS ? ' [large]' : ''`
Warn(base64Png) ==
  IF Len(base64Png) > WARNING_THRESHOLD_CHARS THEN <<" [large]">> ELSE <<>>

\* The message of the inline branch: size check, then warning.
InlineMessage(base64Png, label) ==
  LET head == <<"<camera> ">> \o label \o <<" (", ToString(SizeKB(base64Png)), "KB)">>
  IN IF ExceedsMax(base64Png)
       THEN head \o <<" [truncated]", "\n">> \o Slice0(base64Png, MAX_SCREENSHOT_CHARS)
       ELSE head \o Warn(base64Png) \o <<"\n">> \o base64Png

\* ---------------------------------------------------------------- handlers

\* `(args as {...}) || {}` then `const { filePath } = ...`
PageFilePath(a) == IF a.t \in {"undefined", "null"} THEN JsUndefined ELSE a.filePath

\* `const { uid, filePath } = args`: destructuring undefined or null throws.
DestructureOutcome(a) ==
  IF a.t \in {"undefined", "null"}
    THEN Throws(Error(<<"Cannot destructure property 'uid' of ", a.t>>))
    ELSE Returns([uid |-> a.uid, filePath |-> a.filePath])

\* A variant that only tests the type.
UidValidTypeOnly(u) == TypeOf(u) = "string"

\* The negation of `!uid || typeof uid !== 'string'`
UidValid(u) == Truthy(u) /\ TypeOf(u) = "string"

\* A variant that only tests the type.
CaptureValidTypeOnly(v) == TypeOf(v) = "string"

\* The negation of `!base64Png || typeof base64Png !== 'string'`
CaptureValid(v) == Truthy(v) /\ TypeOf(v) = "string"

\* `catch (error) { return errorResponse(error as Error); }` of
\* handleScreenshotPage.
PageCatch(o) == IF o.threw THEN Returns(errorResponse(o.error[1])) ELSE o

\* A variant without the outermost catch.
ByUidCatchMissing(o) == o

\* The same outermost catch of handleScreenshotByUid.
ByUidCatch(o) == IF o.threw THEN Returns(errorResponse(o.error[1])) ELSE o

\* A variant that rethrows the error as it is caught.
UidCatchRethrow(o, u) == [outcome |-> o, translated |-> <<>>]

\* `catch (error) { throw handleUidError(error as Error, uid); }`: the
\* outcome, and the calls of handleUidError made.
UidCatch(o, u) ==
  IF o.threw
    THEN [outcome |-> Throws(handleUidError(o.error[1], u)),
          translated |-> <<[error |-> o.error[1], uid |-> u]>>]
    ELSE [outcome |-> o, translated |-> <<>>]

\* ------------------------------------------------------------------- state

VARIABLES
  pc,          \* where the call is: "idle", the await it is suspended at
               \* ("import", "getFirefox", "capture", "write"), "returned"
               \* or "raised"
  handler,     \* "none", "page" (handleScreenshotPage) or "byUid"
  args,        \* the argument of the call
  uid,         \* the local uid of handleScreenshotByUid
  filePath,    \* the local filePath
  base64Png,   \* what the capture resolved to
  calls,       \* the collaborator operations invoked, in order
  writes,      \* the writeFile calls: path, data and how each ended
  translated,  \* the calls of handleUidError: error and uid
  failed,      \* the steps of the call that failed
  cause,       \* the error the failed step produced (at most one)
  result,      \* the envelope returned (at most one)
  raised       \* the error the handler raised (at most one)

vars == <<pc, handler, args, uid, filePath, base64Png, calls, writes,
          translated, failed, cause, result, raised>>

NoArgs == [t |-> "none", uid |-> JsUndefined, filePath |-> JsUndefined]

Init ==
  /\ pc = "idle"
  /\ handler = "none"
  /\ args = NoArgs
  /\ uid = JsUndefined
  /\ filePath = JsUndefined
  /\ base64Png = JsUndefined
  /\ calls = <<>>
  /\ writes = <<>>
  /\ translated = <<>>
  /\ failed = {}
  /\ cause = <<>>
  /\ result = <<>>
  /\ raised = <<>>

\* The label handed to buildScreenshotResponse.
Label(h, u) == IF h = "page" THEN <<"page">> ELSE u.s

\* A variant whose try block holds the capture call only.
UidTryBlockCaptureOnly == {"capture"}

\* The steps inside the try block of handleScreenshotByUid whose catch calls
\* handleUidError: the capture call, the validity check and
\* buildScreenshotResponse (path resolution, write, response).
UidTryBlock == {"capture", "invalid", "resolve", "write", "respond"}

\* The try body of handler h ended at `step` with outcome o.
\* The catch blocks turn it into what the handler returns or raises.
Finish(h, u, o, step) ==
  LET c == IF h = "byUid" /\ step \in UidTryBlock
             THEN UidCatch(o, u.s)
             ELSE [outcome |-> o, translated |-> <<>>]
      final == IF h = "page" THEN PageCatch(c.outcome) ELSE ByUidCatch(c.outcome)
  IN /\ translated' = translated \o c.translated
     /\ result' = final.value
     /\ raised' = final.error
     /\ pc' = IF final.threw THEN "raised" ELSE "returned"

\* A step of the call failed with error e.
Fail(step, e) ==
  /\ failed' = failed \cup {step}
  /\ cause' = <<e>>

\* handleScreenshotPage(a), up to `await import(...)`.
CallPage ==
  \E a \in ArgsValues :
    /\ pc = "idle"
    /\ handler' = "page"
    /\ args' = a
    /\ filePath' = PageFilePath(a)
    /\ calls' = Append(calls, "import")
    /\ pc' = "import"
    /\ UNCHANGED <<uid, base64Png, writes, translated, failed, cause, result, raised>>

\* handleScreenshotByUid(a), up to `await import(...)` or to the return of
\* the error envelope when the destructuring or the uid check throws.
CallByUid ==
  \E a \in ArgsValues :
    LET d == DestructureOutcome(a) IN
    /\ pc = "idle"
    /\ handler' = "byUid"
    /\ args' = a
    /\ IF d.threw
         THEN /\ Fail("args", d.error[1])
              /\ Finish("byUid", JsUndefined, d, "args")
              /\ UNCHANGED <<uid, filePath, calls>>
         ELSE /\ uid' = d.value[1].uid
              /\ filePath' = d.value[1].filePath
              /\ IF UidValid(d.value[1].uid)
                   THEN /\ calls' = Append(calls, "import")
                        /\ pc' = "import"
                        /\ UNCHANGED <<translated, failed, cause, result, raised>>
                   ELSE /\ Fail("uid", Error(<<"uid required">>))
                        /\ Finish("byUid", d.value[1].uid,
                                  Throws(Error(<<"uid required">>)), "uid")
                        /\ UNCHANGED calls
    /\ UNCHANGED <<base64Png, writes>>

\* `await import('../index.js')` resolves; getFirefox() is called.
ImportResolves ==
  /\ pc = "import"
  /\ calls' = Append(calls, "getFirefox")
  /\ pc' = "getFirefox"
  /\ UNCHANGED <<handler, args, uid, filePath, base64Png, writes, translated,
                 failed, cause, result, raised>>

\* `await import('../index.js')` rejects.
ImportRejects ==
  \E e \in ImportErrors :
    /\ pc = "import"
    /\ Fail("import", e)
    /\ Finish(handler, uid, Throws(e), "import")
    /\ UNCHANGED <<handler, args, uid, filePath, base64Png, calls, writes>>

\* `await getFirefox()` resolves; the capture operation is called.
GetFirefoxResolves ==
  /\ pc = "getFirefox"
  /\ calls' = Append(calls, IF handler = "page" THEN "takeScreenshotPage"
                                                  ELSE "takeScreenshotByUid")
  /\ pc' = "capture"
  /\ UNCHANGED <<handler, args, uid, filePath, base64Png, writes, translated,
                 failed, cause, result, raised>>

\* `await getFirefox()` rejects.
GetFirefoxRejects ==
  \E e \in GetFirefoxErrors :
    /\ pc = "getFirefox"
    /\ Fail("getFirefox", e)
    /\ Finish(handler, uid, Throws(e), "getFirefox")
    /\ UNCHANGED <<handler, args, uid, filePath, base64Png, calls, writes>>

\* The capture resolves to v: the validity check, then
\* buildScreenshotResponse up to its return, its throw or `await writeFile`.
CaptureResolves ==
  \E v \in CaptureValues :
    LET r == ResolveOutcome(filePath) IN
    /\ pc = "capture"
    /\ base64Png' = v
    /\ IF ~CaptureValid(v)
         THEN /\ Fail("invalid", Error(<<"Invalid screenshot data">>))
              /\ Finish(handler, uid, Throws(Error(<<"Invalid screenshot data">>)), "invalid")
              /\ UNCHANGED <<calls, writes>>
         ELSE IF ~SaveRequested(filePath)
           THEN /\ Finish(handler, uid,
                          Returns(successResponse(InlineMessage(v.s, Label(handler, uid)))),
                          "respond")
                /\ UNCHANGED <<calls, writes, failed, cause>>
         ELSE IF r.threw
           THEN /\ Fail("resolve", r.error[1])
                /\ Finish(handler, uid, Throws(SaveError(filePath, r.error[1])), "resolve")
                /\ UNCHANGED <<calls, writes>>
         ELSE /\ calls' = Append(calls, "writeFile")
              /\ writes' = Append(writes, [path |-> r.value[1],
                                           data |-> Base64Decode(v.s),
                                           state |-> "pending"])
              /\ pc' = "write"
              /\ UNCHANGED <<translated, failed, cause, result, raised>>
    /\ UNCHANGED <<handler, args, uid, filePath>>

\* The capture rejects.
CaptureRejects ==
  \E e \in CaptureErrors :
    /\ pc = "capture"
    /\ Fail("capture", e)
    /\ Finish(handler, uid, Throws(e), "capture")
    /\ UNCHANGED <<handler, args, uid, filePath, base64Png, calls, writes>>

\* `await writeFile(absolutePath, buffer)` resolves.
WriteResolves ==
  /\ pc = "write"
  /\ writes' = [writes EXCEPT ![Len(writes)].state = "written"]
  /\ Finish(handler, uid,
            Returns(successResponse(SavedMessage(base64Png.s, Label(handler, uid),
                                                 writes[Len(writes)].path))),
            "respond")
  /\ UNCHANGED <<handler, args, uid, filePath, base64Png, calls, failed, cause>>

\* `await writeFile(absolutePath, buffer)` rejects.
WriteRejects ==
  \E e \in WriteErrors :
    /\ pc = "write"
    /\ writes' = [writes EXCEPT ![Len(writes)].state = "failed"]
    /\ Fail("write", e)
    /\ Finish(handler, uid, Throws(SaveError(filePath, e)), "write")
    /\ UNCHANGED <<handler, args, uid, filePath, base64Png, calls>>

\* The caller has the outcome; nothing of the call outlives it.
Return ==
  /\ pc \in {"returned", "raised"}
  /\ pc' = "idle"
  /\ handler' = "none"
  /\ args' = NoArgs
  /\ uid' = JsUndefined
  /\ filePath' = JsUndefined
  /\ base64Png' = JsUndefined
  /\ calls' = <<>>
  /\ writes' = <<>>
  /\ translated' = <<>>
  /\ failed' = {}
  /\ cause' = <<>>
  /\ result' = <<>>
  /\ raised' = <<>>

Next ==
  \/ CallPage
  \/ CallByUid
  \/ ImportResolves
  \/ ImportRejects
  \/ GetFirefoxResolves
  \/ GetFirefoxRejects
  \/ CaptureResolves
  \/ CaptureRejects
  \/ WriteResolves
  \/ WriteRejects
  \/ Return

Spec == Init /\ [][Next]_vars

\* --------------------------------------------------------------- properties

\* tok is one of the parts of text.
Has(text, tok) == \E i \in 1..Len(text) : text[i] = tok

\* s occurs in text as a run of consecutive tokens.
IsInfix(s, text) ==
  \E i \in 0..(Len(text) - Len(s)) : SubSeq(text, i + 1, i + Len(s)) = s

\* What follows the first line break of text (<<>> when there is none).
DataOf(text) ==
  IF Has(text, "\n")
    THEN LET i == CHOOSE k \in 1..Len(text) :
                    text[k] = "\n" /\ \A j \in 1..(k - 1) : text[j] # "\n"
         IN SubSeq(text, i + 1, Len(text))
    ELSE <<>>

Count(seq, S) == Cardinality({i \in 1..Len(seq) : seq[i] \in S})

CaptureOps == {"takeScreenshotPage", "takeScreenshotByUid"}

\* The call has returned an envelope after a capture that resolved to a
\* non-empty string.
ReturnedWithCapture ==
  /\ pc = "returned"
  /\ Count(calls, CaptureOps) = 1
  /\ "capture" \notin failed
  /\ base64Png.t = "string"
  /\ base64Png.s # <<>>

\* The same with no filePath in the request.
ReturnedInline == ReturnedWithCapture /\ filePath = JsUndefined

\* C1: neither handler raises: a call that has finished has returned exactly
\* one envelope, an error envelope when a step of the call failed (arguments,
\* uid check, import, handle acquisition, capture, validity of the capture,
\* path resolution, write) and a success envelope otherwise; a call that has
\* not finished has returned nothing.
C1_NeverRaises ==
  /\ pc # "raised"
  /\ raised = <<>>
  /\ pc = "returned" => /\ Len(result) = 1
                        /\ result[1].isError <=> failed # {}
  /\ pc # "returned" => result = <<>>

C1_Witness ==
  /\ pc = "returned"
  /\ handler = "byUid"
  /\ "write" \in failed
  /\ result[1].isError

\* C2: handleScreenshotByUid with a uid that is absent, not a string or the
\* empty string returns an error envelope and has called no collaborator:
\* no import, no getFirefox, no capture, no write.
C2_InvalidUidRejected ==
  (handler = "byUid" /\ (args.uid.t # "string" \/ args.uid.s = <<>>)) =>
    /\ pc = "returned"
    /\ Len(result) = 1
    /\ result[1].isError
    /\ calls = <<>>
    /\ writes = <<>>

C2_Witness ==
  /\ handler = "byUid"
  /\ args.t = "object"
  /\ args.uid = JsStr(<<>>)
  /\ pc = "returned"

\* C3 as stated: with no filePath, a capture of length at or above the hard
\* maximum gives a message annotated "[truncated]" whose data is the prefix
\* of the capture of exactly the hard maximum length.
C3_Original ==
  (ReturnedInline /\ Len(base64Png.s) >= MAX_SCREENSHOT_CHARS) =>
    /\ ~result[1].isError
    /\ Has(result[1].text, " [truncated]")
    /\ DataOf(result[1].text) = SubSeq(base64Png.s, 1, MAX_SCREENSHOT_CHARS)

\* C3 amended: with no filePath, a capture longer than the hard maximum gives
\* a success message annotated "[truncated]" whose data is the prefix of the
\* capture of exactly the hard maximum length; a capture of exactly the hard
\* maximum length is not annotated "[truncated]" (it is annotated "[large]")
\* and the data is the whole capture.
C3_TruncatedAboveMax ==
  ReturnedInline =>
    /\ Len(base64Png.s) > MAX_SCREENSHOT_CHARS =>
         /\ ~result[1].isError
         /\ Has(result[1].text, " [truncated]")
         /\ DataOf(result[1].text) = SubSeq(base64Png.s, 1, MAX_SCREENSHOT_CHARS)
         /\ Len(DataOf(result[1].text)) = MAX_SCREENSHOT_CHARS
    /\ Len(base64Png.s) = MAX_SCREENSHOT_CHARS =>
         /\ ~result[1].isError
         /\ ~Has(result[1].text, " [truncated]")
         /\ Has(result[1].text, " [large]")
         /\ DataOf(result[1].text) = base64Png.s

C3_Witness ==
  /\ ReturnedInline
  /\ Len(base64Png.s) > MAX_SCREENSHOT_CHARS
  /\ Has(result[1].text, " [truncated]")

\* C4: with no filePath, a capture whose length is strictly between the
\* warning threshold and the hard maximum gives a success message annotated
\* "[large]", not annotated "[truncated]", whose data is the whole capture.
C4_LargeBetweenThresholds ==
  (/\ ReturnedInline
   /\ Len(base64Png.s) > WARNING_THRESHOLD_CHARS
   /\ Len(base64Png.s) < MAX_SCREENSHOT_CHARS) =>
    /\ ~result[1].isError
    /\ Has(result[1].text, " [large]")
    /\ ~Has(result[1].text, " [truncated]")
    /\ DataOf(result[1].text) = base64Png.s

C4_Witness ==
  /\ ReturnedInline
  /\ Len(base64Png.s) > WARNING_THRESHOLD_CHARS
  /\ Len(base64Png.s) < MAX_SCREENSHOT_CHARS
  /\ handler = "page"

\* C5: with no filePath, a non-empty capture of length at most the warning
\* threshold gives a success message with neither annotation whose data is
\* the whole capture.
C5_PlainUpToWarning ==
  (ReturnedInline /\ Len(base64Png.s) <= WARNING_THRESHOLD_CHARS) =>
    /\ ~result[1].isError
    /\ ~Has(result[1].text, " [large]")
    /\ ~Has(result[1].text, " [truncated]")
    /\ DataOf(result[1].text) = base64Png.s

C5_Witness ==
  /\ ReturnedInline
  /\ Len(base64Png.s) = WARNING_THRESHOLD_CHARS
  /\ handler = "byUid"

\* The request's file was written, once, and the success message names it
\* and carries neither data nor a size annotation.
SavedToFile ==
  /\ Len(writes) = 1
  /\ writes[1] = [path |-> resolve(filePath.s),
                  data |-> Base64Decode(base64Png.s),
                  state |-> "written"]
  /\ IsAbsolute(writes[1].path)
  /\ ~result[1].isError
  /\ IsInfix(writes[1].path, result[1].text)
  /\ ~IsInfix(base64Png.s, result[1].text)
  /\ ~Has(result[1].text, "\n")
  /\ ~Has(result[1].text, " [large]")
  /\ ~Has(result[1].text, " [truncated]")

\* Nothing was written and the success message carries the data, cut at the
\* hard maximum.
ReturnedData ==
  /\ writes = <<>>
  /\ "writeFile" \notin {calls[i] : i \in 1..Len(calls)}
  /\ ~result[1].isError
  /\ DataOf(result[1].text) = Slice0(base64Png.s, MAX_SCREENSHOT_CHARS)

\* C6 as stated: whenever the request supplies a filePath that is a string
\* (the empty string too), the capture is valid and the write does not fail,
\* the decoded bytes are written once to the resolved path and the success
\* message names the path and carries no data; without a filePath nothing is
\* written and the message carries the data.
C6_Original ==
  /\ (ReturnedWithCapture /\ filePath.t = "string" /\ "write" \notin failed) =>
       SavedToFile
  /\ ReturnedInline => ReturnedData

\* C6 amended: whenever filePath is a non-empty string and the capture is
\* valid, one write of the decoded bytes to the resolved absolute path is
\* made, and when it succeeds the success message names that path and carries
\* neither data nor a size annotation (when it fails an error envelope is
\* returned); whenever filePath is not supplied or is the empty string,
\* nothing is written and the message carries the (possibly truncated) data.
C6_SaveXorInline ==
  /\ Len(writes) <= 1
  /\ (ReturnedWithCapture /\ filePath.t = "string" /\ filePath.s # <<>>) =>
       /\ Len(writes) = 1
       /\ writes[1].state \in {"written", "failed"}
       /\ writes[1].state = "written" => SavedToFile
       /\ writes[1].state = "failed" => result[1].isError
  /\ (ReturnedWithCapture /\ (filePath = JsUndefined \/ filePath = JsStr(<<>>))) =>
       ReturnedData

C6_Witness ==
  /\ ReturnedWithCapture
  /\ filePath = JsStr(<<"..", "/", "out.png">>)
  /\ SavedToFile
  /\ Len(base64Png.s) > MAX_SCREENSHOT_CHARS

\* C7: when the write to the caller-supplied path fails, the call, of either
\* handler, returns an error envelope whose message holds the path as the
\* caller supplied it and the message of the underlying cause.
C7_WriteFailureReported ==
  (pc = "returned" /\ "write" \in failed) =>
    /\ writes[1].state = "failed"
    /\ Len(result) = 1
    /\ result[1].isError
    /\ IsInfix(ToStr(filePath), result[1].text)
    /\ IsInfix(cause[1].message, result[1].text)

C7_Witness ==
  /\ pc = "returned"
  /\ "write" \in failed
  /\ handler = "byUid"
  /\ cause[1] = Error(<<"ENOENT">>)

\* C8: in handleScreenshotByUid a failure of the capture call goes through
\* handleUidError, with the request's uid, exactly once, and the envelope
\* carries the translated error: for a lookup failure a message that
\* references the uid.  The "uid required" failure, the failure to
\* destructure the arguments and the failures of the import and of the
\* handle acquisition never go through it.
C8_CaptureFailureTranslatedOnce ==
  (handler = "byUid" /\ pc = "returned") =>
    /\ "capture" \in failed =>
         /\ translated = <<[error |-> cause[1], uid |-> args.uid.s]>>
         /\ result[1] = errorResponse(handleUidError(cause[1], args.uid.s))
         /\ IsLookupFailure(cause[1]) =>
              /\ IsInfix(args.uid.s, result[1].text)
              /\ result[1].text # cause[1].message
    /\ failed \cap {"args", "uid", "import", "getFirefox"} # {} =>
         /\ translated = <<>>
         /\ result[1] = errorResponse(cause[1])

C8_Witness ==
  /\ handler = "byUid"
  /\ pc = "returned"
  /\ "capture" \in failed
  /\ IsLookupFailure(cause[1])
  /\ Len(translated) = 1

\* C9: a call is linear: the capture operation is invoked at most once, the
\* write at most once and only after the capture resolved to a non-empty
\* string; when the capture resolves to anything else the call returns an
\* error envelope (with the message "Invalid screenshot data" from the page
\* handler), writes no file and returns no success envelope.
C9_LinearNoPartialSuccess ==
  /\ Count(calls, CaptureOps) <= 1
  /\ Count(calls, {"writeFile"}) <= 1
  /\ Len(writes) = Count(calls, {"writeFile"})
  /\ writes # <<>> =>
       /\ base64Png.t = "string"
       /\ base64Png.s # <<>>
       /\ \E i, j \in 1..Len(calls) :
            i < j /\ calls[i] \in CaptureOps /\ calls[j] = "writeFile"
  /\ (/\ pc \in {"returned", "raised", "write"}
      /\ Count(calls, CaptureOps) = 1
      /\ "capture" \notin failed
      /\ (base64Png.t # "string" \/ base64Png.s = <<>>)) =>
       /\ pc = "returned"
       /\ Len(result) = 1
       /\ result[1].isError
       /\ writes = <<>>
       /\ handler = "page" => result[1].text = <<"Invalid screenshot data">>

C9_Witness ==
  /\ pc = "returned"
  /\ handler = "page"
  /\ Count(calls, CaptureOps) = 1
  /\ "capture" \notin failed
  /\ base64Png = JsStr(<<>>)
  /\ result[1].isError

\* The error handleScreenshotPage hands to errorResponse for an invalid
\* capture or a failed save.
PageError ==
  IF "invalid" \in failed
    THEN Error(<<"Invalid screenshot data">>)
    ELSE Error(<<"Failed to save screenshot to ">> \o ToStr(filePath) \o <<": ">>
                 \o cause[1].message)

\* C10: for an invalid capture and for a failed save (path resolution or
\* write), handleScreenshotPage returns the envelope of the error untouched
\* and never calls handleUidError, while handleScreenshotByUid calls
\* handleUidError once, with that same error and the uid, and returns the
\* envelope of what it gives back.
C10_TranslationCoversTryBlock ==
  (pc = "returned" /\ failed \cap {"invalid", "resolve", "write"} # {}) =>
    IF handler = "page"
      THEN /\ translated = <<>>
           /\ result = <<errorResponse(PageError)>>
      ELSE /\ translated = <<[error |-> PageError, uid |-> uid.s]>>
           /\ result = <<errorResponse(handleUidError(PageError, uid.s))>>

C10_Witness ==
  /\ pc = "returned"
  /\ handler = "byUid"
  /\ "write" \in failed
  /\ translated = <<[error |-> PageError, uid |-> <<"u1">>]>>

====
